---- MODULE Spec2Model ----
(***************************************************************************)
(* Model of app.py, a Streamlit script.  Streamlit re-executes the whole   *)
(* script top to bottom after every interaction; a button returns True     *)
(* only in the run its press triggered; st.session_state survives between  *)
(* runs; an exception that no handler of the script catches ends the run   *)
(* at that line, so nothing below it is executed or rendered.              *)
(*                                                                         *)
(* Numbers.  Weights are held in tenths of a kilogram (the widgets' step   *)
(* is 0.1) and heights in centimetres (step 0.01), so that every quantity  *)
(* of the script is an exact rational:                                     *)
(*    bmi            = 1000*W / H^2                                        *)
(*    bmr            = (100*W + 625*H - 500*age + 100*s) / 100             *)
(*    calorie_needs  = bmr100 * mult1000 / 100000                          *)
(*    water_needs    = W * mult / 10000                                    *)
(* The script computes in IEEE-754 doubles.  On the inputs enumerated here *)
(* the doubles order against the literals 18.5, 24.9, 25 and 29.9 as the   *)
(* exact values do, with the exceptions listed in FloatBelow.              *)
(***************************************************************************)
EXTENDS Integers, Sequences, FiniteSets, TLC

VARIABLES
    uploaded_file, input_text, session_state,
    weight_bmi, height_bmi,
    age, weight_calorie, height_calorie, gender, activity_level,
    weight_water, activity_level_water,
    button, rendered, escaped, gemini_calls,
    tab1, tab2, tab3, tab4

vars == << uploaded_file, input_text, session_state,
           weight_bmi, height_bmi,
           age, weight_calorie, height_calorie, gender, activity_level,
           weight_water, activity_level_water,
           button, rendered, escaped, gemini_calls,
           tab1, tab2, tab3, tab4 >>

widgets == << weight_bmi, height_bmi,
              age, weight_calorie, height_calorie, gender, activity_level,
              weight_water, activity_level_water >>

----------------------------------------------------------------------------
(* Bounds of the exploration *)

MaxLogs == 2
MaxWeightT == 300
MaxHeightCm == 100
MaxAge == 2
MaxWeightCalT == 2
MaxHeightCalCm == 2
MaxWeightWaterT == 12

----------------------------------------------------------------------------
(* Widget declarations *)

None == [none |-> TRUE]

MinWeightT == 10
MinHeightCm == 50
MinAge == 1
DefaultAge == 25
DefaultWeightCalT == 700
DefaultHeightCalCm == 175

Sedentary == "Sedentary (little or no exercise)"
LightlyActive == "Lightly active (light exercise/sports 1-3 days/week)"
ModeratelyActive == "Moderately active (moderate exercise/sports 3-5 days/week)"
VeryActive == "Very active (hard exercise/sports 6-7 days/week)"

ActivityOptions == {Sedentary, LightlyActive, ModeratelyActive, VeryActive}
GenderOptions == {"Male", "Female"}

\* A label no selectbox offers, for the lookups' behaviour outside the options.
UnknownActivity == "Extremely active"

\* What the BMI form's two number inputs accept (min_value).
BmiFormAccepts(w, h) == w >= MinWeightT /\ h >= MinHeightCm

\* The text area's values: empty, or a free text.
Texts == {"", "Lunch"}

\* Uploaded files: the declared MIME type and the bytes.  The uploader
\* filters on the file name's extension only, so the bytes may be anything.
Files == { [type |-> "image/png",  data |-> "png-bytes"],
           [type |-> "image/jpeg", data |-> "garbage"] }

\* Whether PIL can open and load the bytes as an image.
Decodable(data) == data # "garbage"

\* Outcomes of model.generate_content(...) followed by response.text.
Replies == [kind : {"text"}, text : {"", "Rice 200 kcal", "Dal 150 kcal"}]
           \cup [kind : {"raise"}, error : {"quota exceeded"}]

\* The widgets and buttons of the script, in the order it creates them.
Tab1Inputs == {"text_area", "file_uploader"}
AllWidgets == Tab1Inputs \cup {"calorie_button", "bmi_inputs", "bmi_button",
                               "calorie_req_inputs", "calorie_req_button",
                               "water_inputs", "water_button"}

----------------------------------------------------------------------------
(* Python helpers *)

\* bool(s) of a str
Truthy(s) == s # ""

\* a or b, on strings
Or(a, b) == IF Truthy(a) THEN a ELSE b

\* The values f"{x:.2f}" can show for x = n / (100*d), in hundredths.  An
\* exact decimal tie is not representable in binary, so the double lies on
\* either side of it and the format can go either way.
Fmt2f(n, d) ==
    LET q == n \div d
        r == n % d
    IN  IF 2 * r < d THEN {q}
        ELSE IF 2 * r > d THEN {q + 1}
        ELSE {q, q + 1}

----------------------------------------------------------------------------
(* get_gemini_response, input_image_setup *)

input_image_setup(file) ==
    << [mime_type |-> file.type, data |-> file.data] >>

full_prompt(text) ==
    IF Truthy(text) THEN << "input_prompt", "\n\nAdditional Input: ", text >>
    ELSE << "input_prompt" >>

\* The one call of generate_content([prompt, image[0]]): its arguments and
\* what it did (returned response.text, or raised).
get_gemini_response(image, prompt, reply) ==
    [prompt |-> prompt, image |-> image[1], reply |-> reply]

\* st.session_state["meal_logs"], as the history tab would read it
MealLog(ss) == IF "meal_logs" \in DOMAIN ss THEN ss["meal_logs"] ELSE << >>

LogMeal_Prepend(ss, text, response) ==
    [k \in {"meal_logs"} |->
        << [meal_name |-> Or(text, "Unnamed Meal"), response |-> response] >>
        \o MealLog(ss)]

\* if "meal_logs" not in st.session_state: ... = []; then .append({...})
LogMeal(ss, text, response) ==
    LET logs == IF "meal_logs" \in DOMAIN ss THEN ss["meal_logs"] ELSE << >>
    IN  [k \in {"meal_logs"} |->
            Append(logs, [meal_name |-> Or(text, "Unnamed Meal"),
                          response  |-> response])]

----------------------------------------------------------------------------
(* Tab 1: Calorie Estimation *)

\* Image.open(uploaded_file) and st.image(image) stand outside any try.
PreviewRaises(file) == file # None /\ ~Decodable(file.data)

OnMissingImage_Logs(base, ss, text) ==
    [base EXCEPT !.out.shown =
                    << << "error", "Please upload an image to analyze." >> >>,
                 !.ss = LogMeal(ss, text, "")]

\* uploaded_file is None
OnMissingImage(base, ss, text) ==
    [base EXCEPT !.out.shown =
                    << << "error", "Please upload an image to analyze." >> >>]

\* the try body after the model returned
OnResponse(base, call, ss, text) ==
    [base EXCEPT !.calls = << call >>,
                 !.out.shown = << << "success", "Analysis Complete!" >>,
                                  << "write", call.reply.text >> >>,
                 !.ss = LogMeal(ss, text, call.reply.text)]

OnException_Logs(base, call, ss, text) ==
    [base EXCEPT !.calls = << call >>,
                 !.out.shown = << << "error", "Error: ", call.reply.error >> >>,
                 !.ss = LogMeal(ss, text, call.reply.error)]

\* except Exception as e
OnException(base, call, ss, text) ==
    [base EXCEPT !.calls = << call >>,
                 !.out.shown = << << "error", "Error: ", call.reply.error >> >>]

\* One execution of the tab's code.  btn is the button whose press caused
\* this run ("none" for a widget change), reply what the model call does if
\* it is reached.  raised is the exception that leaves the tab's code.
Tab1(btn, file, text, ss, reply) ==
    IF PreviewRaises(file)
    THEN [out |-> [preview |-> FALSE, shown |-> << >>],
          ss |-> ss, calls |-> << >>,
          raised |-> "UnidentifiedImageError", rendered |-> Tab1Inputs]
    ELSE LET base == [out |-> [preview |-> file # None, shown |-> << >>],
                      ss |-> ss, calls |-> << >>,
                      raised |-> "none",
                      rendered |-> Tab1Inputs \cup {"calorie_button"}]
         IN  IF btn # "calorie_button" THEN base
             ELSE IF file = None THEN OnMissingImage(base, ss, text)
             ELSE LET image_data == input_image_setup(file)
                      call == get_gemini_response(image_data,
                                                  full_prompt(text), reply)
                  IN  IF reply.kind = "text"
                      THEN OnResponse(base, call, ss, text)
                      ELSE OnException(base, call, ss, text)

----------------------------------------------------------------------------
(* Tab 2: BMI Calculator *)

\* Inputs whose double quotient weight / height**2 lands just below an
\* exact value that equals a threshold literal:
\*   16.0 / 0.8**2 = 16.0 / 0.6400000000000001 = 24.999999999999996
FloatBelow(w, h) == w = 160 /\ h = 80

\* bmi = weight_bmi / (height_bmi ** 2), as num/den with the rounding note
Bmi(w, h) == [num |-> 1000 * w, den |-> h * h, below |-> FloatBelow(w, h)]

\* bmi < t, t a literal given in tenths
BmiLt(b, t10) ==
    \/ 10 * b.num < t10 * b.den
    \/ 10 * b.num = t10 * b.den /\ b.below

\* t <= bmi
BmiGe(b, t10) == ~BmiLt(b, t10)

BmiCategory_NoGap(b) ==
    IF BmiLt(b, 185) THEN "Underweight"
    ELSE IF BmiLt(b, 250) THEN "Normal weight"
    ELSE IF BmiLt(b, 299) THEN "Overweight"
    ELSE "Obesity"

\* The if / elif / elif / else chain
BmiCategory(b) ==
    IF BmiLt(b, 185) THEN "Underweight"
    ELSE IF BmiGe(b, 185) /\ BmiLt(b, 249) THEN "Normal weight"
    ELSE IF BmiGe(b, 250) /\ BmiLt(b, 299) THEN "Overweight"
    ELSE "Obesity"

Tab2(btn, w, h) ==
    IF btn # "bmi_button" THEN { [kind |-> "idle"] }
    ELSE IF h > 0
    THEN { [kind |-> "bmi", bmi |-> Bmi(w, h), subheader |-> s,
            category |-> BmiCategory(Bmi(w, h))] :
              s \in Fmt2f(100000 * w, h * h) }
    ELSE { [kind |-> "error", message |-> "Height must be greater than zero."] }

----------------------------------------------------------------------------
(* Tab 3: Daily Calorie Requirement *)

\* the dict of the handler, multipliers in thousandths
activity_multipliers ==
    (Sedentary :> 1200) @@ (LightlyActive :> 1375) @@
    (ModeratelyActive :> 1550) @@ (VeryActive :> 1725)

Lookup_Default(dict, key) ==
    IF key \in DOMAIN dict THEN [ok |-> TRUE, value |-> dict[key]]
    ELSE [ok |-> TRUE, value |-> dict[Sedentary]]

\* dict[key]: the value, or KeyError
Lookup(dict, key) ==
    IF key \in DOMAIN dict THEN [ok |-> TRUE, value |-> dict[key]]
    ELSE [ok |-> FALSE]

Bmr100_HeightInMetres(a, w, h, g) ==
    100 * w + 625 * (h \div 100) - 500 * a + 100 * (IF g = "Male" THEN 5 ELSE -161)

\* bmr in hundredths of a kcal
Bmr100(a, w, h, g) ==
    100 * w + 625 * h - 500 * a + 100 * (IF g = "Male" THEN 5 ELSE -161)

ValidCalorieInputs_NoAge(a, w, h) == w > 0 /\ h > 0

\* if age > 0 and weight_calorie > 0 and height_calorie > 0
ValidCalorieInputs(a, w, h) == a > 0 /\ w > 0 /\ h > 0

Tab3(btn, a, w, h, g, lvl) ==
    IF btn # "calorie_req_button" THEN { [kind |-> "idle"] }
    ELSE IF ValidCalorieInputs(a, w, h)
    THEN LET bmr == Bmr100(a, w, h, g)
             m == Lookup(activity_multipliers, lvl)
         IN  IF ~m.ok
             THEN { [kind |-> "KeyError", bmr |-> bmr, key |-> lvl] }
             ELSE LET calorie_needs == bmr * m.value
                  IN  { [kind |-> "success", bmr |-> bmr,
                         calorie_needs |-> calorie_needs, shown |-> s] :
                           s \in Fmt2f(calorie_needs, 1000) }
    ELSE { [kind |-> "error", message |-> "Please provide valid inputs."] }

----------------------------------------------------------------------------
(* Tab 4: Water Intake Calculator *)

activity_multiplier_AsCalories ==
    (Sedentary :> 12) @@ (LightlyActive :> 14) @@
    (ModeratelyActive :> 16) @@ (VeryActive :> 17)

\* the dict of the handler, in mL per kg
activity_multiplier ==
    (Sedentary :> 30) @@ (LightlyActive :> 35) @@
    (ModeratelyActive :> 40) @@ (VeryActive :> 45)

\* water_needs in tenths of a millilitre
Tab4(btn, w, lvl) ==
    IF btn # "water_button" THEN { [kind |-> "idle"] }
    ELSE LET m == Lookup(activity_multiplier, lvl)
         IN  IF ~m.ok
             THEN { [kind |-> "KeyError", key |-> lvl] }
             ELSE LET water_needs == w * m.value
                  IN  { [kind |-> "success", water_needs |-> water_needs,
                         shown |-> s] : s \in Fmt2f(water_needs, 100) }

\* a tab whose code the run never reached
NotRun == [kind |-> "not run"]

----------------------------------------------------------------------------
(* One run of the script *)

Rerun(btn, reply) ==
    LET t1 == Tab1(btn, uploaded_file', input_text', session_state, reply)
    IN  /\ button' = btn
        /\ tab1' = t1.out
        /\ session_state' = t1.ss
        /\ gemini_calls' = t1.calls
        /\ IF t1.raised # "none"
           THEN /\ tab2' = NotRun /\ tab3' = NotRun /\ tab4' = NotRun
                /\ escaped' = t1.raised
                /\ rendered' = t1.rendered
           ELSE /\ tab2' \in Tab2(btn, weight_bmi', height_bmi')
                /\ tab3' \in Tab3(btn, age', weight_calorie', height_calorie',
                                  gender', activity_level')
                /\ IF tab3'.kind = "KeyError"
                   THEN /\ tab4' = NotRun
                        /\ escaped' = "KeyError"
                        /\ rendered' = AllWidgets \ {"water_inputs", "water_button"}
                   ELSE /\ tab4' \in Tab4(btn, weight_water', activity_level_water')
                        /\ escaped' = IF tab4'.kind = "KeyError"
                                      THEN "KeyError" ELSE "none"
                        /\ rendered' = AllWidgets

\* the values the widgets are declared with
DeclaredBmiInputs == weight_bmi = MinWeightT /\ height_bmi = MinHeightCm

DeclaredCalorieInputs ==
    /\ age = DefaultAge
    /\ weight_calorie = DefaultWeightCalT
    /\ height_calorie = DefaultHeightCalCm
    /\ gender = "Male"
    /\ activity_level = Sedentary

DeclaredWaterInputs == weight_water = MinWeightT /\ activity_level_water = Sedentary

\* the page after its first run: nothing uploaded, no button pressed
FirstRun ==
    /\ uploaded_file = None
    /\ input_text = ""
    /\ session_state = << >>
    /\ button = "none"
    /\ rendered = AllWidgets
    /\ escaped = "none"
    /\ gemini_calls = << >>
    /\ tab1 = [preview |-> FALSE, shown |-> << >>]
    /\ tab2 = [kind |-> "idle"]
    /\ tab3 = [kind |-> "idle"]
    /\ tab4 = [kind |-> "idle"]

Init ==
    /\ FirstRun
    /\ DeclaredBmiInputs
    /\ DeclaredCalorieInputs
    /\ DeclaredWaterInputs

----------------------------------------------------------------------------
(* The session: interactions the rendered page offers *)

ChangeText ==
    /\ "text_area" \in rendered
    /\ \E t \in Texts \ {input_text} : input_text' = t
    /\ UNCHANGED << uploaded_file, widgets >>
    /\ Rerun("none", None)

ChangeFile ==
    /\ "file_uploader" \in rendered
    /\ \E f \in (Files \cup {None}) \ {uploaded_file} : uploaded_file' = f
    /\ UNCHANGED << input_text, widgets >>
    /\ Rerun("none", None)

PressAnalyze ==
    /\ "calorie_button" \in rendered
    /\ UNCHANGED << uploaded_file, input_text, widgets >>
    /\ \E reply \in Replies :
          /\ reply.kind = "text" /\ uploaded_file # None
                => Len(MealLog(session_state)) < MaxLogs
          /\ Rerun("calorie_button", reply)

PressBMI ==
    /\ "bmi_button" \in rendered
    /\ UNCHANGED << uploaded_file, input_text, widgets >>
    /\ Rerun("bmi_button", None)

PressCalories ==
    /\ "calorie_req_button" \in rendered
    /\ UNCHANGED << uploaded_file, input_text, widgets >>
    /\ Rerun("calorie_req_button", None)

PressWater ==
    /\ "water_button" \in rendered
    /\ UNCHANGED << uploaded_file, input_text, widgets >>
    /\ Rerun("water_button", None)

Next ==
    \/ ChangeText
    \/ ChangeFile
    \/ PressAnalyze
    \/ PressBMI
    \/ PressCalories
    \/ PressWater

Spec == Init /\ [][Next]_vars

----------------------------------------------------------------------------
(* The calculators as functions of their inputs: the page with one panel's *)
(* inputs set, on which the panels' buttons are pressed.  The inputs range *)
(* beyond what the widgets accept (a zero or negative number, a label      *)
(* outside the options), to exercise the handlers' own checks.             *)

BmiWeights == MinWeightT .. MaxWeightT
BmiHeights == {0} \cup (MinHeightCm .. MaxHeightCm)

CalorieAges == ((-1) .. MaxAge) \cup {DefaultAge}
CalorieWeights == ((-1) .. MaxWeightCalT) \cup {DefaultWeightCalT}
CalorieHeights == ((-1) .. MaxHeightCalCm) \cup {DefaultHeightCalCm}
Labels == ActivityOptions \cup {UnknownActivity}

WaterWeights == (0 .. MaxWeightWaterT) \cup {700}

InitEngine ==
    /\ FirstRun
    /\ \/ /\ weight_bmi \in BmiWeights
          /\ height_bmi \in BmiHeights
          /\ DeclaredCalorieInputs /\ DeclaredWaterInputs
       \/ /\ age \in CalorieAges
          /\ weight_calorie \in CalorieWeights
          /\ height_calorie \in CalorieHeights
          /\ gender \in GenderOptions
          /\ activity_level \in Labels
          /\ DeclaredBmiInputs /\ DeclaredWaterInputs
       \/ /\ weight_water \in WaterWeights
          /\ activity_level_water \in Labels
          /\ DeclaredBmiInputs /\ DeclaredCalorieInputs

NextEngine ==
    \/ PressBMI
    \/ PressCalories
    \/ PressWater

SpecEngine == InitEngine /\ [][NextEngine]_vars

----------------------------------------------------------------------------
(* Properties of the session (Spec) *)

\* The run that reaches the new state was an Analyze press whose model call raised.
AnalyzeFailed ==
    /\ button = "calorie_button"
    /\ uploaded_file # None
    /\ Len(gemini_calls) > 0
    /\ gemini_calls[1].reply.kind = "raise"

\* C1: an Analyze press with a file uploaded whose model call raises leaves
\* the meal log as it was, shows "Error: <cause>", and makes exactly one call.
C1_FailureLeavesLog ==
    [][ AnalyzeFailed' =>
          /\ session_state' = session_state
          /\ tab1'.shown = << << "error", "Error: ", gemini_calls'[1].reply.error >> >>
          /\ Len(gemini_calls') = 1
          /\ escaped' = "none" ]_vars

C1_Witness ==
    /\ AnalyzeFailed
    /\ Len(MealLog(session_state)) = 1

AnalyzeSucceeded ==
    /\ button = "calorie_button"
    /\ Len(gemini_calls) > 0
    /\ gemini_calls[1].reply.kind = "text"

\* C2: the meal log starts empty; a successful analysis appends one record
\* (the free text, or "Unnamed Meal" if it is empty, with the returned text)
\* at the end; every other interaction leaves the log as it was.
C2_LogIsHistory ==
    /\ MealLog(session_state) = << >>
    /\ [][ IF AnalyzeSucceeded'
           THEN MealLog(session_state') =
                   MealLog(session_state) \o
                   << [meal_name |-> IF input_text' = "" THEN "Unnamed Meal"
                                     ELSE input_text',
                       response |-> gemini_calls'[1].reply.text] >>
           ELSE MealLog(session_state') = MealLog(session_state) ]_vars

C2_Witness ==
    LET log == MealLog(session_state)
    IN  /\ Len(log) = 2
        /\ log[1] = [meal_name |-> "Lunch", response |-> "Rice 200 kcal"]
        /\ log[2] = [meal_name |-> "Unnamed Meal", response |-> "Dal 150 kcal"]
        /\ button = "bmi_button"

MissingImageError == << << "error", "Please upload an image to analyze." >> >>

\* C3: an Analyze press with no file shows the validation error, calls no
\* model and changes nothing that persists (log, file, text, the button stays
\* on the page); and every Analyze press with a file uploaded reaches the
\* model once, whatever was shown before.
C3_MissingImage ==
    [][ /\ (button' = "calorie_button" /\ uploaded_file' = None) =>
              /\ tab1'.shown = MissingImageError
              /\ gemini_calls' = << >>
              /\ session_state' = session_state
              /\ escaped' = "none"
              /\ "calorie_button" \in rendered'
              /\ "file_uploader" \in rendered'
        /\ (button' = "calorie_button" /\ uploaded_file' # None) =>
              /\ Len(gemini_calls') = 1
              /\ gemini_calls'[1].image.data = uploaded_file'.data
              /\ tab1'.shown # MissingImageError ]_vars

C3_Witness ==
    /\ button = "calorie_button"
    /\ uploaded_file = None
    /\ tab1.shown = MissingImageError
    /\ Len(MealLog(session_state)) = 1

\* C10 (as claimed): a file that cannot be decoded raises nothing of its own,
\* no exception leaves the script and the calculator panels stay on the page.
C10_UndecodableFileHarmless ==
    (uploaded_file # None /\ ~Decodable(uploaded_file.data)) =>
        /\ escaped = "none"
        /\ {"calorie_button", "bmi_button", "calorie_req_button",
            "water_button"} \subseteq rendered

----------------------------------------------------------------------------
(* Properties of the calculators (SpecEngine) *)

\* C4: the daily-calorie handler yields a number only if age, weight and
\* height are all positive; otherwise it shows the validation error and
\* computes no BMR.
C4_CaloriesNeedPositiveInputs ==
    button = "calorie_req_button" =>
        /\ tab3.kind = "success" =>
              age > 0 /\ weight_calorie > 0 /\ height_calorie > 0
        /\ (age <= 0 \/ weight_calorie <= 0 \/ height_calorie <= 0) =>
              tab3 = [kind |-> "error", message |-> "Please provide valid inputs."]

C4_Witness ==
    /\ button = "calorie_req_button"
    /\ age = 0 /\ weight_calorie > 0 /\ height_calorie > 0
    /\ tab3.kind = "error"

\* C5 (as claimed): the category follows the table's intervals exactly,
\* Obese exactly when bmi >= 29.9.
C5_CategoryTable ==
    (button = "bmi_button" /\ tab2.kind = "bmi") =>
        LET n == 1000 * weight_bmi
            d == height_bmi * height_bmi
        IN  /\ tab2.category = "Underweight" <=> 10 * n < 185 * d
            /\ tab2.category = "Normal weight" <=>
                  (185 * d <= 10 * n /\ 10 * n < 249 * d)
            /\ tab2.category = "Overweight" <=>
                  (25 * d <= n /\ 10 * n < 299 * d)
            /\ tab2.category = "Obesity" <=> 299 * d <= 10 * n

\* the computed bmi lies in [24.9, 25)
InGap(b) ==
    /\ ~(10 * b.num < 249 * b.den)
    /\ (b.num < 25 * b.den \/ (b.num = 25 * b.den /\ b.below))

C7_CalorieFormula ==
    (button = "calorie_req_button"
        /\ age > 0 /\ weight_calorie > 0 /\ height_calorie > 0
        /\ gender \in GenderOptions /\ activity_level \in ActivityOptions) =>
        LET s == IF gender = "Male" THEN 500 ELSE -16100
            bmr100 == 100 * weight_calorie + 625 * height_calorie - 500 * age + s
            m == CASE activity_level = Sedentary -> 1200
                   [] activity_level = LightlyActive -> 1375
                   [] activity_level = ModeratelyActive -> 1550
                   [] activity_level = VeryActive -> 1725
        IN  /\ tab3.kind = "success"
            /\ tab3.bmr = bmr100
            /\ tab3.calorie_needs = bmr100 * m
            /\ (age = 25 /\ weight_calorie = 700 /\ height_calorie = 175
                  /\ gender = "Male" /\ activity_level = Sedentary) =>
                  (tab3.bmr = 167375 /\ tab3.calorie_needs = 200850000
                     /\ tab3.shown = 200850)

C7_Witness ==
    /\ button = "calorie_req_button"
    /\ age = 25 /\ weight_calorie = 700 /\ height_calorie = 175
    /\ gender = "Male" /\ activity_level = Sedentary
    /\ tab3.kind = "success"
    /\ tab3.calorie_needs = 200850000

\* C8: a label outside the four options that reaches a multiplier lookup
\* raises KeyError: no multiplier is substituted, no result is produced.
C8_UnknownLabelRaises ==
    /\ (button = "calorie_req_button"
          /\ age > 0 /\ weight_calorie > 0 /\ height_calorie > 0
          /\ activity_level \notin ActivityOptions) =>
          /\ tab3.kind = "KeyError"
          /\ "calorie_needs" \notin DOMAIN tab3
          /\ escaped = "KeyError"
    /\ (button = "water_button" /\ activity_level_water \notin ActivityOptions) =>
          /\ tab4.kind = "KeyError"
          /\ "water_needs" \notin DOMAIN tab4
          /\ escaped = "KeyError"

C8_Witness ==
    /\ button = "water_button"
    /\ activity_level_water = UnknownActivity
    /\ tab4.kind = "KeyError"

\* C9: for weight > 0 and each of the four labels the water result in litres
\* is weight * m / 1000 with m = 30, 35, 40, 45; 70 kg, Moderately active
\* gives 2.8 litres.
C9_WaterFormula ==
    (button = "water_button" /\ weight_water > 0
        /\ activity_level_water \in ActivityOptions) =>
        LET m == CASE activity_level_water = Sedentary -> 30
                   [] activity_level_water = LightlyActive -> 35
                   [] activity_level_water = ModeratelyActive -> 40
                   [] activity_level_water = VeryActive -> 45
        IN  /\ tab4.kind = "success"
            /\ tab4.water_needs = weight_water * m
            /\ 1000 * m # 100 * activity_multipliers[activity_level_water]
            /\ (weight_water = 700 /\ activity_level_water = ModeratelyActive) =>
                  (tab4.water_needs = 28000 /\ tab4.shown = 280)

C9_Witness ==
    /\ button = "water_button"
    /\ weight_water = 700 /\ activity_level_water = ModeratelyActive
    /\ tab4.kind = "success"
    /\ tab4.water_needs = 28000

====
